---------------------------- MODULE Spec2Model ----------------------------
(***************************************************************************)
(* Model of jobs_digest.py: the RSS-to-Telegram job digest pipeline.       *)
(*                                                                         *)
(* Text (titles, summaries, keywords) is a sequence of one-character       *)
(* strings, so that Python's substring test `k in t` and the regular       *)
(* expressions are computed rather than assumed.  A character outside      *)
(* ASCII is written "U+XXXX".  A link is a sequence of URL tokens: the     *)
(* delimiters "?", "&", "=", "#" are tokens of their own and every other   *)
(* token is a run of characters free of delimiters.  An instant is a       *)
(* number of hours since the epoch, or NoTime.                              *)
(***************************************************************************)
EXTENDS Integers, Sequences, FiniteSets, TLC

\* ---------------------------------------------------------------- bounds
\* Number of consecutive invocations of main() explored.
MaxRuns == 2
\* Stand-in for the retention bound 5000 of main() (`[-5000:]`), scaled so
\* that a behaviour can exceed it.
RetainN == 2
\* Largest max_items_per_digest / min_items_per_digest the configuration
\* file is given.
MaxMaxItems == 3
MaxMinItems == 2
\* datetime.now(timezone.utc), in hours since the epoch.
Clock == 1000

None == "None"
\* None where a datetime is expected (Optional[datetime])
NoTime == -1

\* ------------------------------------------------------------ characters
UpperCase == <<"A","B","C","D","E","F","G","H","I","J","K","L","M",
               "N","O","P","Q","R","S","T","U","V","W","X","Y","Z">>
LowerCase == <<"a","b","c","d","e","f","g","h","i","j","k","l","m",
               "n","o","p","q","r","s","t","u","v","w","x","y","z">>
Digits == {"0","1","2","3","4","5","6","7","8","9"}

\* str.lower() on one character
LowerChar(c) ==
    IF \E i \in 1..26 : UpperCase[i] = c
    THEN LowerCase[CHOOSE i \in 1..26 : UpperCase[i] = c]
    ELSE c

\* str.lower()
lower(s) == [i \in 1..Len(s) |-> LowerChar(s[i])]

\* \w of the re module
IsWordChar(c) ==
    \/ \E i \in 1..26 : UpperCase[i] = c \/ LowerCase[i] = c
    \/ c \in Digits
    \/ c = "_"

IsSpace(c) == c \in {" ", "\t", "\n"}

\* the match of k at position i of t
MatchAt(t, k, i) ==
    /\ i >= 1
    /\ i + Len(k) - 1 <= Len(t)
    /\ \A j \in 1..Len(k) : t[i + j - 1] = k[j]

\* Python's `k in t` on strings
Contains(t, k) == \E i \in 1..(Len(t) + 1) : MatchAt(t, k, i)

\* re.search(r"\b(w)\b", t): w starts and ends with a word character
WordMatch(t, w) ==
    \E i \in 1..Len(t) :
        /\ MatchAt(t, w, i)
        /\ (i = 1 \/ ~IsWordChar(t[i - 1]))
        /\ (i + Len(w) - 1 = Len(t) \/ ~IsWordChar(t[i + Len(w)]))

\* re.search(r"\b(w1|w2|...)\b", t)
WordMatchAny(t, ws) == \E n \in 1..Len(ws) : WordMatch(t, ws[n])

RECURSIVE LStrip(_)
LStrip(s) == IF s # <<>> /\ IsSpace(Head(s)) THEN LStrip(Tail(s)) ELSE s

RECURSIVE RStrip(_)
RStrip(s) ==
    IF s # <<>> /\ IsSpace(s[Len(s)]) THEN RStrip(SubSeq(s, 1, Len(s) - 1)) ELSE s

\* str.strip()
strip(s) == RStrip(LStrip(s))

\* re.sub(r"\s+", " ", s)
RECURSIVE CollapseWs(_)
CollapseWs(s) ==
    IF s = <<>> THEN <<>>
    ELSE IF IsSpace(Head(s))
         THEN <<" ">> \o CollapseWs(LStrip(s))
         ELSE <<Head(s)>> \o CollapseWs(Tail(s))

\* sep.join(parts)
RECURSIVE Join(_, _)
Join(parts, sep) ==
    IF parts = <<>> THEN <<>>
    ELSE IF Len(parts) = 1 THEN parts[1]
    ELSE parts[1] \o sep \o Join(Tail(parts), sep)

\* ------------------------------------------------------------------ URLs
\* Lower-case form of a URL token (re.I)
TokLower(tok) ==
    IF tok = "REF" THEN "ref"
    ELSE IF tok = "UTM_S" THEN "utm_s"
    ELSE IF tok = "Source" THEN "source"
    ELSE tok

\* the alternatives ref|source|fbclid|gclid of the tracking pattern
ExactTracking == {"ref", "source", "fbclid", "gclid"}
\* the tokens that utm_[^=]+ can start at: "utm_" followed by a character
UtmTracking == {"utm_s", "utm_m"}

\* index of the first token equal to d at or after i, 0 when there is none
RECURSIVE IndexFrom(_, _, _)
IndexFrom(s, d, i) ==
    IF i > Len(s) THEN 0
    ELSE IF s[i] = d THEN i
    ELSE IndexFrom(s, d, i + 1)

\* s.split(d, 1)[0]
BeforeFirst(s, d) ==
    LET i == IndexFrom(s, d, 1)
    IN  IF i = 0 THEN s ELSE SubSeq(s, 1, i - 1)

\* end of the greedy run [^&]+ that starts at i (i - 1 when the run is empty)
RECURSIVE RunEnd(_, _)
RunEnd(s, i) ==
    IF i > Len(s) \/ s[i] = "&" THEN i - 1 ELSE RunEnd(s, i + 1)

\* Last index of the match of (\?|&)(utm_[^=]+|ref|source|fbclid|gclid)=[^&]+
\* that starts at i, 0 when there is no match at i.
TrackingMatchEnd(s, i) ==
    IF ~(i + 1 <= Len(s) /\ s[i] \in {"?", "&"}) THEN 0
    ELSE LET name == TokLower(s[i + 1])
             \* position of the "=" closing the parameter name
             eq == IF name \in ExactTracking
                   THEN (IF i + 2 <= Len(s) /\ s[i + 2] = "=" THEN i + 2 ELSE 0)
                   ELSE IF name \in UtmTracking
                   THEN IndexFrom(s, "=", i + 2)
                   ELSE 0
         IN  IF eq = 0 THEN 0
             ELSE LET e == RunEnd(s, eq + 1)
                  IN  IF e >= eq + 1 THEN e ELSE 0

\* re.sub(pattern, "", url, flags=re.I) from position i on
RECURSIVE RemoveTracking(_, _)
RemoveTracking(s, i) ==
    IF i > Len(s) THEN <<>>
    ELSE LET e == TrackingMatchEnd(s, i)
         IN  IF e # 0 THEN RemoveTracking(s, e + 1)
             ELSE <<s[i]>> \o RemoveTracking(s, i + 1)

\* url.replace("?&", "?")
RECURSIVE ReplaceQAmp(_)
ReplaceQAmp(s) ==
    IF s = <<>> THEN <<>>
    ELSE IF Len(s) >= 2 /\ s[1] = "?" /\ s[2] = "&"
         THEN <<"?">> \o ReplaceQAmp(SubSeq(s, 3, Len(s)))
         ELSE <<s[1]>> \o ReplaceQAmp(Tail(s))

\* url.rstrip("?&")
RECURSIVE RStripQAmp(_)
RStripQAmp(s) ==
    IF s # <<>> /\ s[Len(s)] \in {"?", "&"}
    THEN RStripQAmp(SubSeq(s, 1, Len(s) - 1))
    ELSE s

normalize_url(url) ==
    IF url = <<>> THEN url
    ELSE RStripQAmp(ReplaceQAmp(RemoveTracking(BeforeFirst(url, "#"), 1)))

strip_query(url) ==
    IF url = <<>> THEN url ELSE BeforeFirst(url, "?")

\* hashlib.sha256(...).hexdigest(): the digest is named by the text it is
\* the digest of (no two texts share a digest)
sha(s) == <<"sha256">> \o s

job_key(job) == sha(strip_query(normalize_url(job.link)))

\* html_escape() on a link: applied token by token ("&" is the only URL
\* token holding one of the escaped characters)
html_escape(url) == [i \in 1..Len(url) |-> IF url[i] = "&" THEN "&amp;" ELSE url[i]]

\* ------------------------------------------------------------- geography
LATAM_COUNTRIES == <<
    <<"m","e","x","i","c","o">>,
    <<"b","r","a","z","i","l">>,
    <<"a","r","g","e","n","t","i","n","a">>,
    <<"c","h","i","l","e">>,
    <<"c","o","l","o","m","b","i","a">>,
    <<"p","e","r","u">>,
    <<"u","r","u","g","u","a","y">>,
    <<"p","a","r","a","g","u","a","y">>,
    <<"b","o","l","i","v","i","a">>,
    <<"e","c","u","a","d","o","r">>,
    <<"v","e","n","e","z","u","e","l","a">>,
    <<"p","a","n","a","m","a">>,
    <<"c","o","s","t","a"," ","r","i","c","a">>,
    <<"g","u","a","t","e","m","a","l","a">>,
    <<"h","o","n","d","u","r","a","s">>,
    <<"e","l"," ","s","a","l","v","a","d","o","r">>,
    <<"n","i","c","a","r","a","g","u","a">>,
    <<"d","o","m","i","n","i","c","a","n">>,
    <<"d","o","m","i","n","i","c","a","n"," ","r","e","p","u","b","l","i","c">>,
    <<"p","u","e","r","t","o"," ","r","i","c","o">>,
    <<"m","U+00C3","U+00A9","x","i","c","o">>,
    <<"b","r","a","s","i","l">>,
    <<"a","r","g","e","n","t","i","n","a">>,
    <<"c","h","i","l","e">>,
    <<"c","o","l","o","m","b","i","a">>,
    <<"p","e","r","U+00C3","U+00BA">>,
    <<"u","r","u","g","u","a","y">>,
    <<"p","a","r","a","g","u","a","y">>,
    <<"b","o","l","i","v","i","a">>,
    <<"e","c","u","a","d","o","r">>,
    <<"v","e","n","e","z","u","e","l","a">>,
    <<"p","a","n","a","m","U+00C3","U+00A1">>,
    <<"c","o","s","t","a"," ","r","i","c","a">>,
    <<"g","u","a","t","e","m","a","l","a">>,
    <<"h","o","n","d","u","r","a","s">>,
    <<"e","l"," ","s","a","l","v","a","d","o","r">>,
    <<"n","i","c","a","r","a","g","u","a">>,
    <<"r","e","p","U+00C3","U+00BA","b","l","i","c","a"," ","d","o","m","i","n","i","c","a","n","a">>,
    <<"p","u","e","r","t","o"," ","r","i","c","o">>,
    <<"m","x">>,
    <<"b","r">>,
    <<"a","r">>,
    <<"c","l">>,
    <<"c","o">>,
    <<"p","e">>,
    <<"u","y">>,
    <<"p","y">>,
    <<"b","o">>,
    <<"e","c">>,
    <<"v","e">>,
    <<"p","a">>,
    <<"c","r">>,
    <<"g","t">>,
    <<"h","n">>,
    <<"s","v">>,
    <<"n","i">>,
    <<"d","o">>,
    <<"p","r">> >>

SeqContainsAny(t, ks) == \E n \in 1..Len(ks) : Contains(t, ks[n])

text_contains_any(text, keywords) ==
    LET t == lower(text)
    IN  \E n \in 1..Len(keywords) : Contains(t, lower(keywords[n]))

is_latam_job(text) ==
    LET t == lower(text)
    IN  IF Contains(t, <<"l","a","t","i","n"," ","a","m","e","r","i","c","a">>) \/ Contains(t, <<"l","a","t","a","m">>) THEN TRUE
        ELSE IF \/ Contains(t, <<"s","o","u","t","h"," ","a","m","e","r","i","c","a">>)
                \/ Contains(t, <<"c","e","n","t","r","a","l"," ","a","m","e","r","i","c","a">>)
                \/ Contains(t, <<"c","a","r","i","b","b","e","a","n">>) THEN TRUE
        ELSE SeqContainsAny(t, LATAM_COUNTRIES)

within_lookback(dt, hours) ==
    IF dt = NoTime THEN TRUE ELSE dt >= Clock - hours

\* ----------------------------------------------------------------- track
TrackDesign == <<
    <<"d","e","s","i","g","n","e","r">>,
    <<"u","x">>,
    <<"u","i">>,
    <<"p","r","o","d","u","c","t"," ","d","e","s","i","g","n","e","r">>,
    <<"u","x"," ","r","e","s","e","a","r","c","h","e","r">>,
    <<"u","i"," ","d","e","s","i","g","n","e","r">>,
    <<"v","i","s","u","a","l"," ","d","e","s","i","g","n","e","r">>,
    <<"g","r","a","p","h","i","c"," ","d","e","s","i","g","n","e","r">> >>
TrackProduct == <<
    <<"p","r","o","d","u","c","t"," ","m","a","n","a","g","e","r">>,
    <<"p","r","o","d","u","c","t"," ","o","w","n","e","r">>,
    <<"p","r","o","d","u","c","t"," ","l","e","a","d">>,
    <<"g","r","o","w","t","h"," ","p","r","o","d","u","c","t">>,
    <<"p","r","o","d","u","c","t"," ","o","p","s">>,
    <<"p","r","o","d","u","c","t"," ","o","p","e","r","a","t","i","o","n","s">> >>
TrackProject == <<
    <<"p","r","o","j","e","c","t"," ","m","a","n","a","g","e","r">>,
    <<"p","r","o","g","r","a","m"," ","m","a","n","a","g","e","r">>,
    <<"s","c","r","u","m"," ","m","a","s","t","e","r">>,
    <<"p","m","o">>,
    <<"d","e","l","i","v","e","r","y"," ","m","a","n","a","g","e","r">>,
    <<"i","m","p","l","e","m","e","n","t","a","t","i","o","n"," ","m","a","n","a","g","e","r">> >>
TrackData == <<
    <<"d","a","t","a"," ","s","c","i","e","n","t","i","s","t">>,
    <<"d","a","t","a"," ","e","n","g","i","n","e","e","r">>,
    <<"d","a","t","a"," ","a","n","a","l","y","s","t">>,
    <<"r","e","s","e","a","r","c","h"," ","a","n","a","l","y","s","t">>,
    <<"a","n","a","l","y","s","t">>,
    <<"a","n","a","l","y","t","i","c","s">>,
    <<"b","u","s","i","n","e","s","s"," ","i","n","t","e","l","l","i","g","e","n","c","e">>,
    <<"b","i">> >>
TrackAI == <<
    <<"m","a","c","h","i","n","e"," ","l","e","a","r","n","i","n","g">>,
    <<"m","l"," ","e","n","g","i","n","e","e","r">>,
    <<"a","i"," ","e","n","g","i","n","e","e","r">>,
    <<"a","i">> >>
TrackDevOps == <<
    <<"d","e","v","o","p","s">>,
    <<"s","r","e">>,
    <<"s","i","t","e"," ","r","e","l","i","a","b","i","l","i","t","y">>,
    <<"p","l","a","t","f","o","r","m"," ","e","n","g","i","n","e","e","r">>,
    <<"c","l","o","u","d"," ","e","n","g","i","n","e","e","r">>,
    <<"k","u","b","e","r","n","e","t","e","s">>,
    <<"s","e","c","o","p","s">>,
    <<"s","e","c","u","r","i","t","y"," ","e","n","g","i","n","e","e","r">> >>
TrackEngineering == <<
    <<"e","n","g","i","n","e","e","r">>,
    <<"d","e","v","e","l","o","p","e","r">>,
    <<"s","o","f","t","w","a","r","e"," ","e","n","g","i","n","e","e","r">>,
    <<"b","a","c","k","e","n","d">>,
    <<"f","r","o","n","t","e","n","d">>,
    <<"f","u","l","l","s","t","a","c","k">>,
    <<"f","u","l","l"," ","s","t","a","c","k">>,
    <<"p","h","p">>,
    <<"p","y","t","h","o","n">>,
    <<"j","a","v","a">>,
    <<"g","o","l","a","n","g">>,
    <<"n","o","d","e">>,
    <<"r","e","a","c","t">>,
    <<"s","e","r","v","i","c","e","n","o","w">>,
    <<"c","l","o","j","u","r","e">> >>
TrackEventManager == <<
    <<"e","v","e","n","t"," ","m","a","n","a","g","e","r">>,
    <<"e","v","e","n","t"," ","c","o","o","r","d","i","n","a","t","o","r">> >>
TrackEvents == <<
    <<"e","v","e","n","t">>,
    <<"e","v","e","n","t","s">> >>
TrackSupport == <<
    <<"c","u","s","t","o","m","e","r"," ","s","u","p","p","o","r","t">>,
    <<"s","u","p","p","o","r","t">>,
    <<"c","u","s","t","o","m","e","r"," ","s","u","c","c","e","s","s">>,
    <<"o","p","e","r","a","t","i","o","n","s">>,
    <<"o","p","s">>,
    <<"c","o","n","t","a","c","t"," ","c","e","n","t","e","r">> >>

infer_track(text) ==
    LET t == lower(text)
    IN  IF WordMatchAny(t, TrackDesign) THEN "Design"
        ELSE IF WordMatchAny(t, TrackProduct) THEN "Product"
        ELSE IF WordMatchAny(t, TrackProject) THEN "Project"
        ELSE IF WordMatchAny(t, TrackData) THEN "Data/AI"
        ELSE IF WordMatchAny(t, TrackAI) THEN "Data/AI"
        ELSE IF WordMatchAny(t, TrackDevOps) THEN "DevOps/Sec"
        ELSE IF WordMatchAny(t, TrackEngineering) THEN "Engineering"
        ELSE IF WordMatchAny(t, TrackEventManager) \/ WordMatchAny(t, TrackEvents)
             THEN "Events"
        ELSE IF WordMatchAny(t, TrackSupport) THEN "Support/Ops"
        ELSE "Other"

\* ----------------------------------------------------------------- score
SeniorityWords == <<
    <<"s","e","n","i","o","r">>,
    <<"l","e","a","d">>,
    <<"s","t","a","f","f">>,
    <<"p","r","i","n","c","i","p","a","l">>,
    <<"h","e","a","d">>,
    <<"d","i","r","e","c","t","o","r">> >>

\* title + " " + summary
TitleAndSummary(job) == job.title \o <<" ">> \o job.summary

score(job, filters) ==
    LET text == lower(TitleAndSummary(job))
    IN  (IF Contains(text, <<"l","a","t","a","m">>) \/ Contains(text, <<"l","a","t","i","n"," ","a","m","e","r","i","c","a">>) THEN 4 ELSE 0)
      + (IF SeqContainsAny(text, LATAM_COUNTRIES) THEN 2 ELSE 0)
      + (IF text_contains_any(text, filters.remote_keywords) THEN 1 ELSE 0)
      + (IF WordMatchAny(lower(text), SeniorityWords) THEN 1 ELSE 0)


\* ------------------------------------------------- environment: the feeds
\* One raw entry as feedparser hands it over.
Entry(title, link, summary, description, tags, published_parsed, updated_parsed) ==
    [title |-> title, link |-> link, summary |-> summary,
     description |-> description, tags |-> tags,
     published_parsed |-> published_parsed, updated_parsed |-> updated_parsed]

\* What feedparser.parse(url) returns for each feed URL.
FeedEntries(url) ==
    IF url = "u1" THEN <<
        Entry(<<"L","e","a","d"," ","E","n","g","i","n","e","e","r"," ","A","r","g","e","n","t","i","n","a"," ","L","A","T","A","M">>,
              <<"https://x/a", "?", "UTM_S", "=", "2", "#", "top">>,
              <<>>, <<"H","i","r","i","n","g"," ","n","o","w">>, <<>>, NoTime, NoTime),
        Entry(<<"U","X"," "," ","D","e","s","i","g","n","e","r">>,
              <<"https://x/b", "#", "frag">>,
              <<"P","r","o","d","u","c","t"," ","t","e","a","m">>, <<>>, << <<"A","r","g","e","n","t","i","n","a">>, <<" ">> >>, NoTime, NoTime),
        Entry(<<"E","n","g","i","n","e","e","r"," ","R","e","m","o","t","e">>,
              <<"https://x/c">>,
              <<>>, <<>>, <<>>, 990, NoTime) >>
    ELSE IF url = "u3" THEN <<
        Entry(<<"L","e","a","d"," ","E","n","g","i","n","e","e","r"," ","C","h","i","l","e">>,
              <<"https://x/d", "?", "id", "=", "5", "&", "ref", "=">>,
              <<>>, <<>>, <<>>, NoTime, 950),
        Entry(<<" ","S","e","n","i","o","r"," ","E","n","g","i","n","e","e","r"," ","L","A","T","A","M"," ">>,
              <<"https://x/a", "?", "utm_s", "=", "1">>,
              <<>>, <<>>, <<>>, 990, 950),
        Entry(<<"I","n","t","e","r","n"," ","B","r","a","s","i","l">>,
              <<"https://x/e", "?", "REF", "=", "1">>,
              <<>>, <<>>, <<>>, NoTime, NoTime),
        Entry(<<"G","h","o","s","t"," ","L","A","T","A","M">>, <<>>, <<>>, <<>>, <<>>, 990, NoTime),
        Entry(<<"S","t","a","f","f"," ","E","n","g","i","n","e","e","r"," ","P","e","r","u">>,
              <<"https://x/f">>,
              <<>>, <<>>, <<>>, 0, NoTime) >>
    ELSE <<>>

\* ------------------------------------------------------------ RSS parsing
parse_entry_date(entry) ==
    IF entry.published_parsed # NoTime THEN entry.published_parsed
    ELSE IF entry.updated_parsed # NoTime THEN entry.updated_parsed
    ELSE NoTime

\* the non-empty stripped terms of an entry's tags
RECURSIVE Cats(_)
Cats(tags) ==
    IF tags = <<>> THEN <<>>
    ELSE LET term == strip(Head(tags))
         IN  (IF term # <<>> THEN <<term>> ELSE <<>>) \o Cats(Tail(tags))

\* one iteration of the loop of fetch_rss: the records the entry adds
FetchEntry(feed_id, e) ==
    LET title == CollapseWs(strip(e.title))
        link == normalize_url(e.link)
        summary0 == CollapseWs(strip(IF e.summary # <<>> THEN e.summary ELSE e.description))
        cats == Cats(e.tags)
        summary == IF cats # <<>>
                   THEN strip(summary0 \o <<" ","|"," ","c","a","t","e","g","o","r","i","e","s",":"," ">> \o Join(cats, <<","," ">>))
                   ELSE summary0
        dt == parse_entry_date(e)
    IN  IF title # <<>> /\ link # <<>>
        THEN << [title |-> title, link |-> link, summary |-> summary,
                 dt |-> dt, source |-> feed_id] >>
        ELSE <<>>

RECURSIVE FetchEntries(_, _)
FetchEntries(feed_id, entries) ==
    IF entries = <<>> THEN <<>>
    ELSE FetchEntry(feed_id, Head(entries)) \o FetchEntries(feed_id, Tail(entries))

fetch_rss(feed_id, url) == FetchEntries(feed_id, FeedEntries(url))

\* ---------------------------------------------------------- configuration
Feeds == <<
    [id |-> "f1", url |-> "u1", type |-> "rss", enabled |-> TRUE],
    [id |-> "f2", url |-> "u2", type |-> "html", enabled |-> TRUE],
    [id |-> "f3", url |-> "u3", type |-> "rss", enabled |-> TRUE],
    [id |-> "f4", url |-> "u1", type |-> "rss", enabled |-> FALSE],
    [id |-> "f5", url |-> None, type |-> "rss", enabled |-> TRUE] >>

Lookbacks == {24, 72}
IncludeChoices == { <<>>, << <<"E","n","g","i","n","e","e","r">> >> }
ExcludeChoices == { <<>>, << <<"i","n","t","e","r","n">> >> }
RemoteKeywords == << <<"r","e","m","o","t","e">> >>

\* The contents jobs_sources.json may have.
Configs ==
    { [meta |-> [max_items_per_digest |-> mx, min_items_per_digest |-> mn,
                 lookback_hours |-> lb],
       feeds |-> Feeds,
       filters |-> [include_keywords |-> inc, exclude_keywords |-> exc,
                    remote_keywords |-> RemoteKeywords]] :
      mx \in 0..MaxMaxItems, mn \in 0..MaxMinItems, lb \in Lookbacks,
      inc \in IncludeChoices, exc \in ExcludeChoices }

\* feed passes the three `continue` tests of the feed loop
FeedEligible(f) == f.enabled /\ f.type = "rss" /\ f.url # None

SeqToSet(s) == { s[i] : i \in 1..Len(s) }

\* ------------------------------------------------------------ tabulation
\* The text functions are tabulated once over the records the feeds can
\* yield and the keyword lists the configuration can hold; the pipeline
\* below reads the tables.
KnownJobs ==
    UNION { SeqToSet(fetch_rss(f.id, f.url)) : f \in { g \in SeqToSet(Feeds) : FeedEligible(g) } }

KnownKeywordLists == IncludeChoices \cup ExcludeChoices

\* fetch_rss(fid, url) per configured feed
Fetched == [f \in { g \in SeqToSet(Feeds) : FeedEligible(g) } |-> fetch_rss(f.id, f.url)]

\* text_contains_any(full_text, keywords) with full_text of the record
TextContainsAny ==
    [j \in KnownJobs, ks \in KnownKeywordLists |->
        text_contains_any(lower(TitleAndSummary(j)), ks)]

\* is_latam_job(full_text) with full_text of the record
IsLatamJob == [j \in KnownJobs |-> is_latam_job(lower(TitleAndSummary(j)))]

\* score(j, filters): of the filters only remote_keywords is read
Score == [j \in KnownJobs |-> score(j, [remote_keywords |-> RemoteKeywords])]

\* job_key(j)
JobKey == [j \in KnownJobs |-> job_key(j)]

\* infer_track(full_text) as build_post calls it
TrackOf == [j \in KnownJobs |-> infer_track(strip(TitleAndSummary(j)))]

\* ------------------------------------------------------------------ gate
\* variant: the loop body without the geography test
GateOneWithoutGeo(j, filters, lookback, pub) ==
    IF ~within_lookback(j.dt, lookback) THEN <<>>
    ELSE LET inc == filters.include_keywords
             exc == filters.exclude_keywords
         IN  IF inc # <<>> /\ ~TextContainsAny[j, inc] THEN <<>>
             ELSE IF exc # <<>> /\ TextContainsAny[j, exc] THEN <<>>
             ELSE LET key == JobKey[j]
                  IN  IF key \in pub THEN <<>>
                      ELSE << <<Score[j], j, key>> >>

\* body of the loop over `collected`: the tuples the record adds to `fresh`
GateOne(j, filters, lookback, pub) ==
    IF ~within_lookback(j.dt, lookback) THEN <<>>
    ELSE LET inc == filters.include_keywords
             exc == filters.exclude_keywords
         IN  IF inc # <<>> /\ ~TextContainsAny[j, inc] THEN <<>>
             ELSE IF exc # <<>> /\ TextContainsAny[j, exc] THEN <<>>
             ELSE IF ~IsLatamJob[j] THEN <<>>
             ELSE LET key == JobKey[j]
                  IN  IF key \in pub THEN <<>>
                      ELSE << <<Score[j], j, key>> >>

RECURSIVE GateLoop(_, _, _, _)
GateLoop(coll, filters, lookback, pub) ==
    IF coll = <<>> THEN <<>>
    ELSE GateOne(Head(coll), filters, lookback, pub)
         \o GateLoop(Tail(coll), filters, lookback, pub)

\* -------------------------------------------------------------- selector
\* variant: the sort key without the timestamp
SortKeyScoreOnly(x) == << x[1], 0 >>

\* the sort key of fresh.sort(): (score, timestamp or 0)
SortKey(x) == << x[1], IF x[2].dt # NoTime THEN x[2].dt ELSE 0 >>

\* a < b on Python tuples of two numbers
KeyLess(a, b) == a[1] < b[1] \/ (a[1] = b[1] /\ a[2] < b[2])

\* variant: the sort without reverse=True
RECURSIVE InsertAsc(_, _)
InsertAsc(s, x) ==
    IF s = <<>> THEN <<x>>
    ELSE IF KeyLess(SortKey(x), SortKey(Head(s))) THEN <<x>> \o s
    ELSE <<Head(s)>> \o InsertAsc(Tail(s), x)

\* x put into s, sorted descending, behind every element not smaller than it
RECURSIVE InsertDesc(_, _)
InsertDesc(s, x) ==
    IF s = <<>> THEN <<x>>
    ELSE IF KeyLess(SortKey(Head(s)), SortKey(x)) THEN <<x>> \o s
    ELSE <<Head(s)>> \o InsertDesc(Tail(s), x)

\* list.sort(key=..., reverse=True): descending and stable
RECURSIVE SortDesc(_)
SortDesc(s) ==
    IF s = <<>> THEN <<>>
    ELSE InsertDesc(SortDesc(SubSeq(s, 1, Len(s) - 1)), s[Len(s)])

\* the loop that fills `chosen`: append, then break once len >= max_items
RECURSIVE Choose(_, _, _)
Choose(fr, acc, max_items) ==
    IF fr = <<>> THEN acc
    ELSE LET acc2 == Append(acc, << Head(fr)[2], Head(fr)[3] >>)
         IN  IF Len(acc2) >= max_items THEN acc2
             ELSE Choose(Tail(fr), acc2, max_items)

\* ---------------------------------------------------------- post builder
TrackOrder == <<"Design", "Product", "Project", "Events", "Engineering",
                "Data/AI", "DevOps/Sec", "Support/Ops", "Other">>

\* the numbered lines of one section, the first of them numbered idx
EntryLines(items, idx) ==
    [n \in 1..Len(items) |->
        [kind |-> "entry", idx |-> idx + n - 1, job |-> items[n],
         href |-> html_escape(strip_query(normalize_url(items[n].link)))]]

RECURSIVE SectionLines(_, _, _)
SectionLines(jobs, t, idx) ==
    IF t > Len(TrackOrder) THEN <<>>
    ELSE LET items == SelectSeq(jobs, LAMBDA j : TrackOf[j] = TrackOrder[t])
         IN  IF items = <<>> THEN SectionLines(jobs, t + 1, idx)
             ELSE << [kind |-> "section", track |-> TrackOrder[t], count |-> Len(items)] >>
                  \o EntryLines(items, idx)
                  \o SectionLines(jobs, t + 1, idx + Len(items))

\* The message as its sequence of lines: the header, then per track a
\* section line and the numbered entries, then the footer.  The wording
\* inside an entry (role, company, location, grade) is left out.
build_post(jobs, c) ==
    << [kind |-> "header"] >> \o SectionLines(jobs, 1, 1) \o << [kind |-> "footer"] >>

\* -------------------------------------------------------------- telegram
\* What httpx.post can come back with.
Responses ==
    { [transport |-> "error", status |-> 0, ok |-> FALSE],
      [transport |-> "up", status |-> 500, ok |-> FALSE],
      [transport |-> "up", status |-> 200, ok |-> FALSE],
      [transport |-> "up", status |-> 200, ok |-> TRUE] }

\* variant: the acknowledgement's "ok" is not looked at
tg_send_html_ignores_ok(resp) ==
    IF resp.transport = "error" THEN "httpx.TransportError"
    ELSE IF resp.status >= 400 THEN "httpx.HTTPStatusError"
    ELSE "return"

\* "return" when tg_send_html returns, else the exception it raises
tg_send_html(resp) ==
    IF resp.transport = "error" THEN "httpx.TransportError"
    ELSE IF resp.status >= 400 THEN "httpx.HTTPStatusError"
    ELSE IF ~resp.ok THEN "RuntimeError"
    ELSE "return"

\* ----------------------------------------------------------------- state
\* state.json before it is first written
NoFile == [exists |-> FALSE, published |-> <<>>]

\* variant: the stored keys are not read back
load_state_forgets(file) == [published |-> <<>>]

load_state(file) ==
    IF ~file.exists THEN [published |-> <<>>] ELSE [published |-> file.published]

\* what httpx.post has answered before it was called
NoResponse == [transport |-> "none", status |-> 0, ok |-> FALSE]

\* list(a_set): a set of str iterates in an order the hash seed decides
RECURSIVE ListsOfSet(_)
ListsOfSet(S) ==
    IF S = {} THEN { <<>> }
    ELSE UNION { { <<x>> \o p : p \in ListsOfSet(S \ {x}) } : x \in S }

\* lst[-n:]
LastN(lst, n) ==
    IF Len(lst) <= n THEN lst ELSE SubSeq(lst, Len(lst) - n + 1, Len(lst))

\* ------------------------------------------------- key study: the links
\* One query parameter as its tokens: name, "=", value (the value may be
\* empty).
ParamKinds ==
    { <<"utm_s", "=", "1">>, <<"UTM_S", "=", "2">>, <<"ref", "=">>,
      <<"Source", "=", "1">>, <<"id", "=", "7">> }

\* Largest number of query parameters of a link of the key study.
MaxParams == 2

\* A link as path "https://x/a", a list of parameters and a fragment or not.
LinkShapes ==
    { [params |-> p, fragment |-> f] :
        p \in UNION { [1..n -> ParamKinds] : n \in 0..MaxParams },
        f \in BOOLEAN }

NoShape == [params |-> <<>>, fragment |-> FALSE]

RECURSIVE RenderParams(_)
RenderParams(ps) ==
    IF ps = <<>> THEN <<>>
    ELSE IF Len(ps) = 1 THEN ps[1]
    ELSE ps[1] \o <<"&">> \o RenderParams(Tail(ps))

\* the link as the feed carries it
RenderLink(shape) ==
    <<"https://x/a">>
    \o (IF shape.params # <<>> THEN <<"?">> \o RenderParams(shape.params) ELSE <<>>)
    \o (IF shape.fragment THEN <<"#", "top">> ELSE <<>>)

\* ------------------------------------------------------------------ main
VARIABLES
    cfg,          \* jobs_sources.json
    state_file,   \* state.json: NoFile while the file does not exist
    run,          \* number of the invocation of main()
    pc,           \* position inside main()
    published,    \* local `published`
    feed_i,       \* index of the feed the feed loop is at
    collected,    \* local `collected`
    fresh,        \* local `fresh`
    chosen,       \* local `chosen`
    post,         \* local `post`, <<>> before build_post
    error,        \* the exception main() ended with, None otherwise
    exit_kind,    \* how main() ended
    loaded_file,  \* state.json as it was when this run started
    failed_feeds, \* indices of the feeds whose fetch raised in this run
    tg_resp,      \* the answer to this run's sendMessage call
    saves,        \* calls of save_state in this run
    sent_log,     \* per successful publish: the run and the keys sent
    shape_a,      \* key study: the first link, as path, parameters, fragment
    shape_b,      \* key study: the second link
    key_a,        \* key study: job_key of the record with the first link
    key_b,        \* key study: job_key of the record with the second link
    key_pc        \* key study: "off", "input" or "keyed"

vars == << cfg, state_file, run, pc, published, feed_i, collected, fresh,
           chosen, post, error, exit_kind, loaded_file, failed_feeds,
           tg_resp, saves, sent_log, shape_a, shape_b, key_a, key_b, key_pc >>

keyvars == << shape_a, shape_b, key_a, key_b, key_pc >>

env == << cfg, run, sent_log, keyvars >>

max_items == cfg.meta.max_items_per_digest
min_items == cfg.meta.min_items_per_digest
lookback == cfg.meta.lookback_hours

Init ==
    /\ cfg \in Configs
    /\ state_file = NoFile
    /\ run = 1
    /\ pc = "idle"
    /\ published = {}
    /\ feed_i = 1
    /\ collected = <<>>
    /\ fresh = <<>>
    /\ chosen = <<>>
    /\ post = <<>>
    /\ error = None
    /\ exit_kind = None
    /\ loaded_file = NoFile
    /\ failed_feeds = {}
    /\ tg_resp = NoResponse
    /\ saves = 0
    /\ sent_log = <<>>
    /\ shape_a = NoShape
    /\ shape_b = NoShape
    /\ key_a = <<>>
    /\ key_b = <<>>
    /\ key_pc = "off"

\* main() up to the feed loop: load_config, load_state, the locals
Start ==
    /\ pc = "idle"
    /\ pc' = "fetch"
    /\ published' = SeqToSet(load_state(state_file).published)
    /\ loaded_file' = state_file
    /\ feed_i' = 1
    /\ collected' = <<>>
    /\ fresh' = <<>>
    /\ chosen' = <<>>
    /\ post' = <<>>
    /\ error' = None
    /\ exit_kind' = None
    /\ failed_feeds' = {}
    /\ tg_resp' = NoResponse
    /\ saves' = 0
    /\ UNCHANGED << env, state_file >>

\* a feed the loop passes over: disabled, not rss, or without url
SkipFeed ==
    /\ pc = "fetch"
    /\ feed_i <= Len(cfg.feeds)
    /\ ~FeedEligible(cfg.feeds[feed_i])
    /\ feed_i' = feed_i + 1
    /\ UNCHANGED << env, state_file, pc, published, collected, fresh, chosen,
                    post, error, exit_kind, loaded_file, failed_feeds, tg_resp, saves >>

\* collected.extend(fetch_rss(fid, url))
FetchFeed ==
    /\ pc = "fetch"
    /\ feed_i <= Len(cfg.feeds)
    /\ FeedEligible(cfg.feeds[feed_i])
    /\ collected' = collected \o Fetched[cfg.feeds[feed_i]]
    /\ feed_i' = feed_i + 1
    /\ UNCHANGED << env, state_file, pc, published, fresh, chosen,
                    post, error, exit_kind, loaded_file, failed_feeds, tg_resp, saves >>

\* variant: the entries parsed before the failure are kept
collected_keeps_partial(coll, feed) == coll \o SubSeq(Fetched[feed], 1, 1)

\* `collected` after fetch_rss raised inside the try: the except branch
\* only prints, and extend() was never reached
collected_on_fetch_error(coll, feed) == coll

\* fetch_rss raises: the except branch
FetchFeedFails ==
    /\ pc = "fetch"
    /\ feed_i <= Len(cfg.feeds)
    /\ FeedEligible(cfg.feeds[feed_i])
    /\ collected' = collected_on_fetch_error(collected, cfg.feeds[feed_i])
    /\ failed_feeds' = failed_feeds \cup {feed_i}
    /\ feed_i' = feed_i + 1
    /\ UNCHANGED << env, state_file, pc, published, fresh, chosen,
                    post, error, exit_kind, loaded_file, tg_resp, saves >>

\* the loop over `collected` that fills `fresh`
Gate ==
    /\ pc = "fetch"
    /\ feed_i > Len(cfg.feeds)
    /\ fresh' = GateLoop(collected, cfg.filters, lookback, published)
    /\ pc' = "select"
    /\ UNCHANGED << env, state_file, published, feed_i, collected, chosen,
                    post, error, exit_kind, loaded_file, failed_feeds, tg_resp, saves >>

\* `if not fresh: return`
NoFresh ==
    /\ pc = "select"
    /\ fresh = <<>>
    /\ pc' = "exit"
    /\ exit_kind' = "no_fresh"
    /\ UNCHANGED << env, state_file, published, feed_i, collected, fresh, chosen,
                    post, error, loaded_file, failed_feeds, tg_resp, saves >>

\* sort, fill `chosen`, `if len(chosen) < min_items: return`
BelowMin ==
    /\ pc = "select"
    /\ fresh # <<>>
    /\ fresh' = SortDesc(fresh)
    /\ chosen' = Choose(fresh', <<>>, max_items)
    /\ Len(chosen') < min_items
    /\ pc' = "exit"
    /\ exit_kind' = "below_min"
    /\ UNCHANGED << env, state_file, published, feed_i, collected,
                    post, error, loaded_file, failed_feeds, tg_resp, saves >>

\* sort, fill `chosen`, build the post
BuildPost ==
    /\ pc = "select"
    /\ fresh # <<>>
    /\ fresh' = SortDesc(fresh)
    /\ chosen' = Choose(fresh', <<>>, max_items)
    /\ Len(chosen') >= min_items
    /\ post' = build_post([n \in 1..Len(chosen') |-> chosen'[n][1]], cfg)
    /\ pc' = "send"
    /\ UNCHANGED << env, state_file, published, feed_i, collected,
                    error, exit_kind, loaded_file, failed_feeds, tg_resp, saves >>

\* tg_send_html raises: main() ends with the exception
PublishFails ==
    /\ pc = "send"
    /\ \E resp \in Responses :
          /\ tg_send_html(resp) # "return"
          /\ tg_resp' = resp
          /\ error' = tg_send_html(resp)
    /\ pc' = "exit"
    /\ exit_kind' = "failed"
    /\ UNCHANGED << env, state_file, published, feed_i, collected, fresh, chosen,
                    post, loaded_file, failed_feeds, saves >>

\* tg_send_html returns: the keys are added, the list is cut, save_state
PublishAndCommit ==
    /\ pc = "send"
    /\ \E resp \in Responses :
          /\ tg_send_html(resp) = "return"
          /\ tg_resp' = resp
    /\ published' = published \cup { chosen[n][2] : n \in 1..Len(chosen) }
    /\ \E lst \in ListsOfSet(published') :
          state_file' = [exists |-> TRUE, published |-> LastN(lst, RetainN)]
    /\ saves' = saves + 1
    /\ sent_log' = Append(sent_log, [run |-> run,
                                     keys |-> [n \in 1..Len(chosen) |-> chosen[n][2]]])
    /\ pc' = "exit"
    /\ exit_kind' = "published"
    /\ UNCHANGED << cfg, run, feed_i, collected, fresh, chosen,
                    post, error, loaded_file, failed_feeds, keyvars >>

\* the scheduler starts main() again
NextRun ==
    /\ pc = "exit"
    /\ run < MaxRuns
    /\ run' = run + 1
    /\ pc' = "idle"
    /\ UNCHANGED << cfg, state_file, published, feed_i, collected, fresh, chosen,
                    post, error, exit_kind, loaded_file, failed_feeds, tg_resp,
                    saves, sent_log, keyvars >>

Next ==
    \/ Start
    \/ SkipFeed
    \/ FetchFeed
    \/ FetchFeedFails
    \/ Gate
    \/ NoFresh
    \/ BelowMin
    \/ BuildPost
    \/ PublishFails
    \/ PublishAndCommit
    \/ NextRun

Spec == Init /\ [][Next]_vars


\* ------------------------------------------------------------- key study
\* job_key applied, as the pipeline applies it, to the records fetch_rss
\* makes of two feed entries that carry two links.
InitKeys ==
    /\ cfg \in { c \in Configs : c.meta.max_items_per_digest = 0
                                /\ c.meta.min_items_per_digest = 0
                                /\ c.meta.lookback_hours = 24
                                /\ c.filters.include_keywords = <<>>
                                /\ c.filters.exclude_keywords = <<>> }
    /\ state_file = NoFile
    /\ run = 1
    /\ pc = "idle"
    /\ published = {}
    /\ feed_i = 1
    /\ collected = <<>>
    /\ fresh = <<>>
    /\ chosen = <<>>
    /\ post = <<>>
    /\ error = None
    /\ exit_kind = None
    /\ loaded_file = NoFile
    /\ failed_feeds = {}
    /\ tg_resp = NoResponse
    /\ saves = 0
    /\ sent_log = <<>>
    /\ shape_a \in LinkShapes
    /\ shape_b \in LinkShapes
    /\ key_a = <<>>
    /\ key_b = <<>>
    /\ key_pc = "input"

\* the record fetch_rss makes of an entry with this title and link
RecordOf(feed_id, title, link, dt) ==
    FetchEntry(feed_id, Entry(title, link, <<>>, <<>>, <<>>, dt, NoTime))[1]

ComputeKeys ==
    /\ key_pc = "input"
    /\ key_a' = job_key(RecordOf("f1", <<"B","a","c","k","e","n","d"," ","E","n","g","i","n","e","e","r">>, RenderLink(shape_a), 990))
    /\ key_b' = job_key(RecordOf("f3", <<"P","l","a","t","f","o","r","m"," ","L","e","a","d">>, RenderLink(shape_b), NoTime))
    /\ key_pc' = "keyed"
    /\ UNCHANGED << cfg, state_file, run, pc, published, feed_i, collected, fresh,
                    chosen, post, error, exit_kind, loaded_file, failed_feeds,
                    tg_resp, saves, sent_log, shape_a, shape_b >>

NextKeys == ComputeKeys

SpecKeys == InitKeys /\ [][NextKeys]_vars


\* ------------------------------------------------------------ properties
\* (score, recency) of a record: a missing timestamp counts as epoch zero
Rank(j) == << Score[j], IF j.dt = NoTime THEN 0 ELSE j.dt >>

\* rank a is not below rank b
RankGE(a, b) == a[1] > b[1] \/ (a[1] = b[1] /\ a[2] >= b[2])

FreshKeys == { fresh[i][3] : i \in 1..Len(fresh) }
ChosenKeys == { chosen[i][2] : i \in 1..Len(chosen) }
Gated == pc \in {"select", "send", "exit"}
PublisherCalled == tg_resp # NoResponse
Acknowledged(resp) == resp.transport = "up" /\ resp.status < 400 /\ resp.ok

\* the first run published
FirstRunPublished == Len(sent_log) >= 1 /\ sent_log[1].run = 1
FirstBatch == SeqToSet(sent_log[1].keys)

\* no key of the first run's batch is a candidate of, or sent by, the second
NothingSentTwice ==
    /\ FirstBatch \cap FreshKeys = {}
    /\ \A n \in 2..Len(sent_log) : FirstBatch \cap SeqToSet(sent_log[n].keys) = {}

\* C1 as stated: starting from no stored state, whatever the size of the
\* first run's batch, no key the first run sent is among the candidates of
\* the second run or sent again by it.
C1_NoRepublishAnyBatch ==
    (run = 2 /\ Gated /\ FirstRunPublished) => NothingSentTwice

\* C1 amended: starting from no stored state, when the first run's batch
\* holds at most RetainN distinct keys, no key the first run sent is among
\* the candidates of the second run or sent again by it.
C1_NoRepublishWithinRetention ==
    (run = 2 /\ Gated /\ FirstRunPublished /\ Cardinality(FirstBatch) <= RetainN)
        => NothingSentTwice

\* C1 witness: the second run, with every feed fetched, has gated a record
\* whose key the first run sent, and still has other candidates.
C1_Witness ==
    /\ run = 2 /\ pc = "select" /\ FirstRunPublished
    /\ Cardinality(FirstBatch) <= RetainN
    /\ failed_feeds = {}
    /\ \E i \in 1..Len(collected) : JobKey[collected[i]] \in FirstBatch
    /\ fresh # <<>>

\* C2: save_state runs at most once per run and only after the Publisher
\* acknowledged; a failed publish ends the run with state.json as loaded.
C2_CommitOnlyAfterPublish ==
    /\ saves <= 1
    /\ (saves = 1 => Acknowledged(tg_resp))
    /\ (state_file # loaded_file => saves = 1)
    /\ ((PublisherCalled /\ ~Acknowledged(tg_resp)) =>
            /\ exit_kind = "failed"
            /\ error # None
            /\ saves = 0
            /\ state_file = loaded_file
            /\ ChosenKeys \cap SeqToSet(state_file.published) = {})

\* C2 witness: a run that loaded stored keys got a not-ok acknowledgement.
C2_Witness ==
    /\ pc = "exit" /\ exit_kind = "failed"
    /\ tg_resp.transport = "up" /\ tg_resp.status = 200 /\ ~tg_resp.ok
    /\ loaded_file.exists
    /\ chosen # <<>>

\* C3 as stated: whenever the Publisher is called, min_items <= |chosen| <=
\* max_items; a run with fewer than min_items candidates never calls the
\* Publisher and leaves state.json as it was.
C3_SelectorBounds ==
    /\ (PublisherCalled => (min_items <= Len(chosen) /\ Len(chosen) <= max_items))
    /\ ((pc = "exit" /\ Len(fresh) < min_items) =>
            (~PublisherCalled /\ saves = 0 /\ state_file = loaded_file))

\* prev followed by the keys of ks that are new, in the order of ks
RECURSIVE AppendNew(_, _)
AppendNew(prev, ks) ==
    IF ks = <<>> THEN prev
    ELSE AppendNew(IF Head(ks) \in SeqToSet(prev) THEN prev ELSE Append(prev, Head(ks)),
                   Tail(ks))

\* C4 as stated: after a successful run state.json holds at most RetainN
\* keys, they are the most recently inserted ones, and every key just sent
\* is among them when the batch has at most RetainN keys.
C4_InsertionOrderEviction ==
    (pc = "exit" /\ exit_kind = "published") =>
        LET sent == sent_log[Len(sent_log)].keys
            kept == SeqToSet(state_file.published)
        IN  /\ Len(state_file.published) <= RetainN
            /\ kept = SeqToSet(LastN(AppendNew(loaded_file.published, sent), RetainN))
            /\ (Cardinality(SeqToSet(sent)) <= RetainN => SeqToSet(sent) \subseteq kept)

\* C5 as stated: the candidate list and the batch never hold two records
\* with the same DedupKey.
C5_NoDuplicateKeys ==
    Gated =>
        /\ \A i, k \in 1..Len(fresh) : i # k => fresh[i][3] # fresh[k][3]
        /\ \A i, k \in 1..Len(chosen) : i # k => chosen[i][2] # chosen[k][2]

\* the numbered entries of the message, in the order of the message
PostEntries == SelectSeq(post, LAMBDA l : l.kind = "entry")

\* C6 as stated: of two entries of the message, the earlier one does not
\* rank below the later one.
C6_OutputMonotone ==
    \A a, b \in 1..Len(PostEntries) :
        a < b => RankGE(Rank(PostEntries[a].job), Rank(PostEntries[b].job))

\* C6 amended: of two entries of the same track section of the message, and
\* of two records of the list handed to build_post, the earlier one does
\* not rank below the later one.
C6_MonotoneWithinTrack ==
    /\ \A a, b \in 1..Len(PostEntries) :
        (a < b /\ TrackOf[PostEntries[a].job] = TrackOf[PostEntries[b].job])
            => RankGE(Rank(PostEntries[a].job), Rank(PostEntries[b].job))
    /\ (pc = "send" =>
          \A a, b \in 1..Len(chosen) :
              a < b => RankGE(Rank(chosen[a][1]), Rank(chosen[b][1])))

\* C6 witness: a message with two entries of one track that tie on score
\* and differ in timestamp, and whose order in `collected` was the reverse.
C6_Witness ==
    /\ pc = "send"
    /\ \E a, b \in 1..Len(PostEntries) :
          /\ a < b
          /\ TrackOf[PostEntries[a].job] = TrackOf[PostEntries[b].job]
          /\ Score[PostEntries[a].job] = Score[PostEntries[b].job]
          /\ Rank(PostEntries[a].job)[2] > Rank(PostEntries[b].job)[2]
          /\ \E m, n \in 1..Len(collected) :
                m < n /\ collected[m] = PostEntries[b].job
                      /\ collected[n] = PostEntries[a].job

\* C7: `chosen` is sorted descending by (score, recency), a record without
\* timestamp standing behind a timestamped one of equal score; it is a
\* prefix of the sorted candidates, and no candidate left out ranks
\* strictly above a chosen one.
C7_TopRankedPrefix ==
    (pc \in {"send", "exit"} /\ chosen # <<>>) =>
        /\ Len(chosen) <= Len(fresh)
        /\ \A i \in 1..Len(chosen) : chosen[i] = << fresh[i][2], fresh[i][3] >>
        /\ \A a, b \in 1..Len(chosen) :
              a < b => /\ RankGE(Rank(chosen[a][1]), Rank(chosen[b][1]))
                       /\ (Score[chosen[a][1]] = Score[chosen[b][1]]
                             /\ chosen[a][1].dt = NoTime) => chosen[b][1].dt = NoTime
        /\ \A i \in (Len(chosen) + 1)..Len(fresh) : \A c \in 1..Len(chosen) :
              RankGE(Rank(chosen[c][1]), Rank(fresh[i][2]))

\* C7 witness: a batch that left candidates out and holds a timestamped
\* record ahead of an equal-score record without timestamp.
C7_Witness ==
    /\ pc = "send"
    /\ Len(chosen) < Len(fresh)
    /\ \E a, b \in 1..Len(chosen) :
          /\ a < b
          /\ Score[chosen[a][1]] = Score[chosen[b][1]]
          /\ chosen[a][1].dt # NoTime /\ chosen[b][1].dt = NoTime

\* the five checks of the Gate, each on its own
FreshEnough(j) == j.dt = NoTime \/ j.dt >= Clock - lookback
IncludeOk(j) ==
    cfg.filters.include_keywords = <<>> \/ TextContainsAny[j, cfg.filters.include_keywords]
ExcludeOk(j) ==
    cfg.filters.exclude_keywords = <<>> \/ ~TextContainsAny[j, cfg.filters.exclude_keywords]
GeographyOk(j) == IsLatamJob[j]
NotYetPublished(j) == JobKey[j] \notin SeqToSet(loaded_file.published)
AllFive(j) ==
    FreshEnough(j) /\ IncludeOk(j) /\ ExcludeOk(j) /\ GeographyOk(j) /\ NotYetPublished(j)

\* C9: a collected record is scored and enters `fresh` exactly when the five
\* checks hold together; a record failing the geography check never does.
C9_GateFiveWay ==
    /\ (pc = "select" =>
          LET admitted == SelectSeq(collected, AllFive)
          IN  fresh = [i \in 1..Len(admitted) |->
                          << Score[admitted[i]], admitted[i], JobKey[admitted[i]] >>])
    /\ (Gated =>
          /\ \A i \in 1..Len(fresh) : GeographyOk(fresh[i][2])
          /\ { fresh[i][2] : i \in 1..Len(fresh) }
                = { j \in SeqToSet(collected) : AllFive(j) })

\* C9 witness: the gate has run on a record that fails the geography check
\* alone, on one that fails the dedup check alone, and has let others in.
C9_Witness ==
    /\ pc = "select"
    /\ fresh # <<>>
    /\ \E i \in 1..Len(collected) :
          LET j == collected[i]
          IN  ~GeographyOk(j) /\ FreshEnough(j) /\ IncludeOk(j) /\ ExcludeOk(j)
                /\ NotYetPublished(j)
    /\ \E i \in 1..Len(collected) :
          LET j == collected[i]
          IN  ~NotYetPublished(j) /\ FreshEnough(j) /\ IncludeOk(j) /\ ExcludeOk(j)
                /\ GeographyOk(j)

\* what the feeds before index n contribute, the failed ones nothing
RECURSIVE Contribution(_, _)
Contribution(n, failed) ==
    IF n = 0 THEN <<>>
    ELSE Contribution(n - 1, failed)
         \o (IF FeedEligible(Feeds[n]) /\ n \notin failed
             THEN fetch_rss(Feeds[n].id, Feeds[n].url) ELSE <<>>)

\* C10: a feed whose fetch fails adds no record, the run goes on to the end
\* of the feed loop, and every other feed adds exactly its own records.
C10_FeedFailureIsolation ==
    /\ collected = Contribution(feed_i - 1, failed_feeds)
    /\ (pc \in {"select", "send", "exit"} => feed_i = Len(Feeds) + 1)
    /\ (error # None => PublisherCalled)

\* C10 witness: the first feed failed and the run went on to collect the
\* records of a later feed and to gate them.
C10_Witness ==
    /\ pc = "select"
    /\ failed_feeds = {1}
    /\ collected = fetch_rss(Feeds[3].id, Feeds[3].url)
    /\ fresh # <<>>

\* the parameters of a link that are not tracking parameters
IsTracking(p) == TokLower(p[1]) \in ExactTracking \cup UtmTracking
Untracked(shape) == SelectSeq(shape.params, LAMBDA p : ~IsTracking(p))

\* C8 as stated: two links that differ only in tracking parameters or in
\* the fragment get the same DedupKey, whatever feed, title and timestamp.
C8_KeyIgnoresTracking ==
    (key_pc = "keyed" /\ Untracked(shape_a) = Untracked(shape_b)) => key_a = key_b


=============================================================================
